---- MODULE Spec2Model ----
(***************************************************************************)
(* Model of the three lint-fixing scripts of qwickapps/react-framework:    *)
(*   fix-lint-auto.py, fix-lint-comprehensive.py and fix-lint.py.          *)
(*                                                                         *)
(* A text is a sequence of one-character strings.  Every regular           *)
(* expression of the scripts is modelled by a matcher that returns, for a  *)
(* start position, the position right after the match Python's re finds    *)
(* there (0 when there is none), and re.sub by a left-to-right scan over   *)
(* the non-overlapping matches.                                            *)
(***************************************************************************)
EXTENDS Naturals, Integers, Sequences, FiniteSets, TLC

VARIABLES
    \* ---- rule applications (SpecRules)
    text,        \* the text a rule was last applied to, after the rule
    prev,        \* the same text before that rule application
    orig,        \* the input text
    last,        \* name of the rule applied last ("none" at the start)
    steps,       \* number of rule applications so far
    \* ---- one run of a script (Spec)
    script,      \* "auto", "comprehensive" or "lint"
    base_dir,    \* the directory of the script: Path(__file__).parent
    disk,        \* path -> content of the file
    disk0,       \* the disk when the run started
    pc,          \* where main is: "glob", "lint_start", "lint_fix", "done",
                 \* "done_no_errors", "crashed" (ended by an uncaught exception
                 \* while a file was processed), "failed_start" (ended by
                 \* subprocess.run raising, before any file)
    patIdx,      \* index of the glob pattern being traversed
    seen,        \* files the current pattern's glob has yielded
    fixed_count, \* main's fixed_count
    reported,    \* the files of the "Fixed ..." lines printed, in order
    writes,      \* path -> number of times the file was written
    sameWrite,   \* files written with the very text read from them
    passed,      \* files passed to fix_file / fix_unused_vars
    skipped,     \* files the exclusion filter skipped
    failures,    \* number of I/O failures so far
    output,      \* the lines of the lint command's output
    errors,      \* fix-lint.py: the records get_lint_errors returned
    queue,       \* fix-lint.py: the files of files_with_errors still to fix
    \* ---- a parser over the lint output (SpecParse)
    plines,      \* the lines of the output
    ppos,        \* number of lines scanned
    pparser,     \* "comprehensive" or "lint"
    pstate,      \* the parser's current_file (cur) and records (map / errs)
    attached     \* the file the line scanned last was attached to (or NoFile)

ruleVars == <<text, prev, orig, last, steps>>

runVars == <<script, base_dir, disk, disk0, pc, patIdx, seen, fixed_count,
             reported, writes, sameWrite, passed, skipped, failures, output, errors,
             queue>>

parseVars == <<plines, ppos, pparser, pstate, attached>>

vars == <<ruleVars, runVars, parseVars>>

(***************************************************************************)
(* Characters and character classes of Python's re (ASCII part).           *)
(***************************************************************************)
Digits == {"0","1","2","3","4","5","6","7","8","9"}

\* \w
WordChars ==
    {"a","b","c","d","e","f","g","h","i","j","k","l","m","n","o","p","q",
     "r","s","t","u","v","w","x","y","z",
     "A","B","C","D","E","F","G","H","I","J","K","L","M","N","O","P","Q",
     "R","S","T","U","V","W","X","Y","Z"}
      \cup Digits \cup {"_"}

\* \s of a str pattern, and the characters str.strip() and str.split()
\* take for whitespace: the ASCII ones are space, \t \n \r \f, the
\* vertical tab (0x0b) and the separators 0x1c-0x1f.
SpaceChars ==
    {" ", "\t", "\n", "\r", "\f", "", "", "", "", ""}

\* [ \t]
BlankChars == {" ", "\t"}

IsWord(c) == c \in WordChars

IsSpace(c) == c \in SpaceChars

\* s has the literal lit at position i.
StartsWithAt(s, i, lit) ==
    /\ i >= 1
    /\ i + Len(lit) - 1 <= Len(s)
    /\ SubSeq(s, i, i + Len(lit) - 1) = lit

\* `lit in s` of Python.
Contains(s, lit) ==
    \E i \in 1..(Len(s) - Len(lit) + 1) : StartsWithAt(s, i, lit)

\* str.startswith / str.endswith
StartsWith(s, lit) == StartsWithAt(s, 1, lit)

EndsWith(s, lit) == StartsWithAt(s, Len(s) - Len(lit) + 1, lit)

\* First position >= i whose character is not in the class (Len(s)+1 at the end):
\* the greedy run of a starred class.
RECURSIVE SkipClass(_, _, _)
SkipClass(s, i, class) ==
    IF i <= Len(s) /\ s[i] \in class THEN SkipClass(s, i + 1, class) ELSE i

\* \b at position i: exactly one of s[i-1], s[i] is a word character.
WordBoundary(s, i) ==
    LET before == i >= 2 /\ i - 1 <= Len(s) /\ IsWord(s[i - 1])
        after  == i >= 1 /\ i <= Len(s) /\ IsWord(s[i])
    IN  before # after

\* (?!\[\]) at position i.
NotArrayAt(s, i) == ~StartsWithAt(s, i, <<"[","]">>)

(***************************************************************************)
(* Literals of the patterns and replacements.                              *)
(***************************************************************************)
LitAny == <<"a","n","y">>

LitUnknown == <<"u","n","k","n","o","w","n">>

LitType == <<"t","y","p","e">>

LitGenericAny == <<"<","a","n","y",">">>

LitGenericUnknown == <<"<","u","n","k","n","o","w","n",">">>

LitSlashes == <<"/","/">>

LitTsIgnore == <<"@","t","s","-","i","g","n","o","r","e">>

LitTsExpectError ==
    <<"/","/"," ","@","t","s","-","e","x","p","e","c","t","-","e","r","r","o","r">>

LitConst == <<"c","o","n","s","t"," ">>

LitRequire == <<" ","="," ","r","e","q","u","i","r","e","(","'">>

LitRequireEnd == <<"'",")",";">>

LitEslintDisable ==
    <<"/","/"," ","e","s","l","i","n","t","-","d","i","s","a","b","l","e","-",
      "n","e","x","t","-","l","i","n","e"," ","@","t","y","p","e","s","c","r",
      "i","p","t","-","e","s","l","i","n","t","/","n","o","-","v","a","r","-",
      "r","e","q","u","i","r","e","s","\n">>

LitMock == <<"m","o","c","k">>

LitMockCap == <<"M","o","c","k">>

LitWindow == <<"w","i","n","d","o","w">>

LitAs == <<"a","s">>

LitAnySemi == <<"a","n","y",";">>

LitColonUnknownSemi == <<":"," ","u","n","k","n","o","w","n",";">>

LitAsUnknownSemi == <<")"," ","a","s"," ","u","n","k","n","o","w","n",";">>

LitWindowAsAny == <<"(","w","i","n","d","o","w"," ","a","s"," ","a","n","y",")">>

LitWindowTyped ==
    <<"(","w","i","n","d","o","w"," ","a","s"," ","W","i","n","d","o","w"," ",
      "&"," ","t","y","p","e","o","f"," ","g","l","o","b","a","l","T","h","i",
      "s",")">>

(***************************************************************************)
(* Matchers.  Each returns the position after the match that starts at i,  *)
(* or 0.  The quantified classes of these patterns are followed by a       *)
(* character outside the class, so the greedy run is the only candidate.   *)
(***************************************************************************)

\* \s*:\s*any\b from position i (shared tail of the annotation patterns);
\* lookahead says whether (?!\[\]) follows.
ColonAnyEnd(s, i, lookahead) ==
    LET c == SkipClass(s, i, SpaceChars)
    IN  IF c <= Len(s) /\ s[c] = ":"
        THEN LET a == SkipClass(s, c + 1, SpaceChars)
                 e == a + 3
             IN  IF /\ StartsWithAt(s, a, LitAny)
                    /\ WordBoundary(s, e)
                    /\ (lookahead => NotArrayAt(s, e))
                 THEN e ELSE 0
        ELSE 0

\* fix-lint-auto.py Fix 1:  \b(\w+)\s*:\s*any\b
\* Returns <<end, end of group 1>>.
AutoAnyMatch(s, i) ==
    IF i <= Len(s) /\ IsWord(s[i]) /\ WordBoundary(s, i)
    THEN LET w == SkipClass(s, i, WordChars)
         IN  <<ColonAnyEnd(s, w, FALSE), w>>
    ELSE <<0, 0>>

\* fix-lint-comprehensive.py sub-rule 1:  \b(\w+)\s*:\s*any\b(?!\[\])
CompParamMatch(s, i) ==
    IF i <= Len(s) /\ IsWord(s[i]) /\ WordBoundary(s, i)
    THEN LET w == SkipClass(s, i, WordChars)
         IN  <<ColonAnyEnd(s, w, TRUE), w>>
    ELSE <<0, 0>>

\* sub-rule 2:  \):\s*any\b(?!\[\])
CompReturnMatch(s, i) ==
    IF StartsWithAt(s, i, <<")",":">>)
    THEN LET a == SkipClass(s, i + 2, SpaceChars)
             e == a + 3
         IN  IF StartsWithAt(s, a, LitAny) /\ WordBoundary(s, e) /\ NotArrayAt(s, e)
             THEN e ELSE 0
    ELSE 0

\* sub-rule 3:  (type\s+\w+\s*=\s*)any\b     (no lookahead in the source)
CompAliasMatch(s, i) ==
    IF StartsWithAt(s, i, LitType)
    THEN LET s1 == SkipClass(s, i + 4, SpaceChars)
             w  == SkipClass(s, s1, WordChars)
             s2 == SkipClass(s, w, SpaceChars)
         IN  IF s1 > i + 4 /\ w > s1 /\ s2 <= Len(s) /\ s[s2] = "="
             THEN LET a == SkipClass(s, s2 + 1, SpaceChars)
                      e == a + 3
                  IN  IF StartsWithAt(s, a, LitAny) /\ WordBoundary(s, e)
                      THEN e ELSE 0
             ELSE 0
    ELSE 0

\* sub-rule 4:  <any>
CompGenericMatch(s, i) ==
    IF StartsWithAt(s, i, LitGenericAny) THEN i + 5 ELSE 0

\* sub-rule 5:  (\s+\w+\??\s*:\s*)any\b(?!\[\])
CompPropMatch(s, i) ==
    LET s1 == SkipClass(s, i, SpaceChars)
        w  == SkipClass(s, s1, WordChars)
        q  == IF w <= Len(s) /\ s[w] = "?" THEN w + 1 ELSE w
    IN  IF s1 > i /\ w > s1
        THEN LET viaQ == ColonAnyEnd(s, q, TRUE)
             IN  \* \?? is greedy; without the "?" the next character is the
                 \* "?" itself, which \s*: cannot match.
                 viaQ
        ELSE 0

\* Fix 3 without the trailing \b.
TsIgnoreMatchNoBoundary(s, i) ==
    IF StartsWithAt(s, i, LitSlashes)
    THEN LET a == SkipClass(s, i + 2, SpaceChars)
         IN  IF StartsWithAt(s, a, LitTsIgnore) THEN a + 10 ELSE 0
    ELSE 0

\* fix-lint-auto.py Fix 3:  //\s*@ts-ignore\b
TsIgnoreMatch(s, i) ==
    IF StartsWithAt(s, i, LitSlashes)
    THEN LET a == SkipClass(s, i + 2, SpaceChars)
             e == a + 10
         IN  IF StartsWithAt(s, a, LitTsIgnore) /\ WordBoundary(s, e)
             THEN e ELSE 0
    ELSE 0

\* Position of the next "\n" at or after i (Len(s)+1 when there is none):
\* "." does not match a newline.
LineEnd(s, i) ==
    LET nls == { k \in i..Len(s) : s[k] = "\n" }
    IN  IF nls = {} THEN Len(s) + 1
        ELSE CHOOSE k \in nls : \A x \in nls : k <= x

\* fix-lint-auto.py Fix 4:  ([ \t]*)(const .* = require\('.*'\);)
\* Returns <<end, start of group 2>>.  Both .* are greedy and stay on the
\* line: the match ends after the last "');" of the line that follows a
\* " = require('".
RequireMatch(s, i) ==
    LET c  == SkipClass(s, i, BlankChars)
        le == LineEnd(s, c)
        ends == { b + 3 : b \in
                   { b \in (c + 18)..(le - 3) :
                       /\ StartsWithAt(s, b, LitRequireEnd)
                       /\ \E a \in (c + 6)..(b - 12) :
                             StartsWithAt(s, a, LitRequire) } }
    IN  IF StartsWithAt(s, c, LitConst) /\ ends # {}
        THEN <<CHOOSE e \in ends : \A x \in ends : x <= e, c>>
        ELSE <<0, 0>>

\* fix-lint.py fix_any_types pattern 1:  :\s*any;
LintColonAnyMatch(s, i) ==
    IF i <= Len(s) /\ s[i] = ":"
    THEN LET a == SkipClass(s, i + 1, SpaceChars)
         IN  IF StartsWithAt(s, a, LitAnySemi) THEN a + 4 ELSE 0
    ELSE 0

\* pattern 2:  \)\s*as\s*any;
LintAsAnyMatch(s, i) ==
    IF i <= Len(s) /\ s[i] = ")"
    THEN LET a == SkipClass(s, i + 1, SpaceChars)
             b == SkipClass(s, a + 2, SpaceChars)
         IN  IF StartsWithAt(s, a, LitAs) /\ StartsWithAt(s, b, LitAnySemi)
             THEN b + 4 ELSE 0
    ELSE 0

\* pattern 3:  \(window as any\)
LintWindowMatch(s, i) ==
    IF StartsWithAt(s, i, LitWindowAsAny) THEN i + Len(LitWindowAsAny) ELSE 0

(***************************************************************************)
(* re.sub: find the leftmost match at or after the scan position, copy the *)
(* text before it, emit the replacement and go on after the match.  (No    *)
(* pattern here matches the empty string.)                                 *)
(***************************************************************************)
\* The patterns of fix-lint.py fix_unused_vars (lines 54-68): literal
\* pieces with \s* between them, and the replacement text.
\*   ,\s*screen   screen,\s*   ,\s*render   render,\s*   container
\*   ,\s*container:\s*_container   container:\s*_container,\s*
PieceRules ==
    [ screen_before |->
        [pieces |-> << <<",">>, <<"s","c","r","e","e","n">> >>, repl |-> <<>>],
      screen_after |->
        [pieces |-> << <<"s","c","r","e","e","n",",">>, <<>> >>, repl |-> <<>>],
      render_before |->
        [pieces |-> << <<",">>, <<"r","e","n","d","e","r">> >>, repl |-> <<>>],
      render_after |->
        [pieces |-> << <<"r","e","n","d","e","r",",">>, <<>> >>, repl |-> <<>>],
      container |->
        [pieces |-> << <<"c","o","n","t","a","i","n","e","r">> >>,
         repl |-> <<"_","c","o","n","t","a","i","n","e","r">>],
      destructured_before |->
        [pieces |-> << <<",">>, <<"c","o","n","t","a","i","n","e","r",":">>,
                       <<"_","c","o","n","t","a","i","n","e","r">> >>,
         repl |-> <<>>],
      destructured_after |->
        [pieces |-> << <<"c","o","n","t","a","i","n","e","r",":">>,
                       <<"_","c","o","n","t","a","i","n","e","r",",">>, <<>> >>,
         repl |-> <<>>] ]

\* Match of pieces[k..] at position i, with \s* after each piece but the last.
RECURSIVE PiecesMatch(_, _, _, _)
PiecesMatch(s, i, pieces, k) ==
    IF ~StartsWithAt(s, i, pieces[k]) THEN 0
    ELSE LET e == i + Len(pieces[k])
         IN  IF k = Len(pieces) THEN e
             ELSE PiecesMatch(s, SkipClass(s, e, SpaceChars), pieces, k + 1)

\* The scan of re.sub from position i.  m maps every position where the
\* pattern matches to <<end of the match, expansion of the replacement>>:
\* the leftmost match at or after i is replaced and the scan goes on after
\* it.
RECURSIVE ReSubFrom(_, _, _)
ReSubFrom(s, i, m) ==
    LET rest == { j \in DOMAIN m : j >= i }
    IN  IF rest = {} THEN SubSeq(s, i, Len(s))
        ELSE LET j == CHOOSE x \in rest : \A y \in rest : x <= y
             IN  SubSeq(s, i, j - 1) \o m[j][2] \o ReSubFrom(s, m[j][1], m)

\* The template r'\1: unknown' for a match at i whose group 1 ends before w.
GroupOneColonUnknown(s, i, w) ==
    SubSeq(s, i, w - 1) \o <<":"," ">> \o LitUnknown

\* The template r'\1unknown' when group 1 is the match s[i..e-1] without
\* its last three characters.
GroupThenUnknown(s, i, e) == SubSeq(s, i, e - 4) \o LitUnknown

\* fix-lint-auto.py Fix 1:  re.sub(r'\b(\w+)\s*:\s*any\b', r'\1: unknown', ..)
AutoFixAny(s) ==
    ReSubFrom(s, 1,
        [ j \in { k \in 1..Len(s) : AutoAnyMatch(s, k)[1] # 0 } |->
            <<AutoAnyMatch(s, j)[1],
              GroupOneColonUnknown(s, j, AutoAnyMatch(s, j)[2])>> ])

\* Fix 3:  re.sub(r'//\s*@ts-ignore\b', '// @ts-expect-error', ..)
AutoFixTsIgnore(s) ==
    ReSubFrom(s, 1,
        [ j \in { k \in 1..Len(s) : TsIgnoreMatch(s, k) # 0 } |->
            <<TsIgnoreMatch(s, j), LitTsExpectError>> ])

\* The template of Fix 4 for a match at i whose group 2 starts at g2:
\* r'\1// eslint-disable-next-line @typescript-eslint/no-var-requires\n\1\2'
RequireRepl(s, i, g2, e) ==
    SubSeq(s, i, g2 - 1) \o LitEslintDisable
        \o SubSeq(s, i, g2 - 1) \o SubSeq(s, g2, e - 1)

\* Fix 4.
AutoFixRequire(s) ==
    ReSubFrom(s, 1,
        [ j \in { k \in 1..Len(s) : RequireMatch(s, k)[1] # 0 } |->
            <<RequireMatch(s, j)[1],
              RequireRepl(s, j, RequireMatch(s, j)[2], RequireMatch(s, j)[1])>> ])

\* fix-lint-comprehensive.py fix_any_types, sub-rule 1 (lines 48-52).
CompSubParam(s) ==
    ReSubFrom(s, 1,
        [ j \in { k \in 1..Len(s) : CompParamMatch(s, k)[1] # 0 } |->
            <<CompParamMatch(s, j)[1],
              GroupOneColonUnknown(s, j, CompParamMatch(s, j)[2])>> ])

\* sub-rule 2 (lines 55-59):  '): unknown'
CompSubReturn(s) ==
    ReSubFrom(s, 1,
        [ j \in { k \in 1..Len(s) : CompReturnMatch(s, k) # 0 } |->
            <<CompReturnMatch(s, j), <<")",":"," ">> \o LitUnknown>> ])

\* sub-rule 3 (lines 62-66):  r'\1unknown'
CompSubAlias(s) ==
    ReSubFrom(s, 1,
        [ j \in { k \in 1..Len(s) : CompAliasMatch(s, k) # 0 } |->
            <<CompAliasMatch(s, j),
              GroupThenUnknown(s, j, CompAliasMatch(s, j))>> ])

\* sub-rule 4 (lines 69-73):  '<unknown>'
CompSubGeneric(s) ==
    ReSubFrom(s, 1,
        [ j \in { k \in 1..Len(s) : CompGenericMatch(s, k) # 0 } |->
            <<CompGenericMatch(s, j), LitGenericUnknown>> ])

\* sub-rule 5 (lines 76-80):  r'\1unknown'
CompSubProp(s) ==
    ReSubFrom(s, 1,
        [ j \in { k \in 1..Len(s) : CompPropMatch(s, k) # 0 } |->
            <<CompPropMatch(s, j),
              GroupThenUnknown(s, j, CompPropMatch(s, j))>> ])

\* fix-lint.py fix_any_types, re.sub of the patterns 1-3 (lines 85-95).
LintSubColonAny(s) ==
    ReSubFrom(s, 1,
        [ j \in { k \in 1..Len(s) : LintColonAnyMatch(s, k) # 0 } |->
            <<LintColonAnyMatch(s, j), LitColonUnknownSemi>> ])

LintSubAsAny(s) ==
    ReSubFrom(s, 1,
        [ j \in { k \in 1..Len(s) : LintAsAnyMatch(s, k) # 0 } |->
            <<LintAsAnyMatch(s, j), LitAsUnknownSemi>> ])

LintSubWindow(s) ==
    ReSubFrom(s, 1,
        [ j \in { k \in 1..Len(s) : LintWindowMatch(s, k) # 0 } |->
            <<LintWindowMatch(s, j), LitWindowTyped>> ])

\* fix-lint.py fix_unused_vars: re.sub of the pattern called name.
PieceSub(name, s) ==
    ReSubFrom(s, 1,
        [ j \in { k \in 1..Len(s) :
                    PiecesMatch(s, k, PieceRules[name].pieces, 1) # 0 } |->
            <<PiecesMatch(s, j, PieceRules[name].pieces, 1),
              PieceRules[name].repl>> ])

(***************************************************************************)
(* The text transformations of the scripts.                                *)
(***************************************************************************)
\* fix-lint-auto.py fix_file, lines 17-40: Fix 1, Fix 3, Fix 4 in this order.
AutoTransform(s) == AutoFixRequire(AutoFixTsIgnore(AutoFixAny(s)))

\* fix_any_types without its return-type sub-rule.
CompFixAnyTypesNoReturn(s) ==
    CompSubProp(CompSubGeneric(CompSubAlias(CompSubParam(s))))

\* fix-lint-comprehensive.py fix_any_types: the five sub-rules in order.
CompFixAnyTypes(s) ==
    CompSubProp(CompSubGeneric(CompSubAlias(CompSubReturn(CompSubParam(s)))))

\* fix-lint-comprehensive.py fix_file, lines 134-136 (fix_case_declarations
\* is commented out in the source).
CompTransform(s) == CompFixAnyTypes(s)

\* str.lower (ASCII letters).
UpperSeq ==
    <<"A","B","C","D","E","F","G","H","I","J","K","L","M","N","O","P","Q",
      "R","S","T","U","V","W","X","Y","Z">>

LowerSeq ==
    <<"a","b","c","d","e","f","g","h","i","j","k","l","m","n","o","p","q",
      "r","s","t","u","v","w","x","y","z">>

UpperChars == { UpperSeq[k] : k \in 1..Len(UpperSeq) }

LowerChar(c) ==
    IF c \in UpperChars
    THEN LowerSeq[CHOOSE k \in 1..Len(UpperSeq) : UpperSeq[k] = c]
    ELSE c

\* `lit in s.lower()` of Python, for a lower-case lit.
ContainsLower(s, lit) ==
    \E i \in 1..(Len(s) - Len(lit) + 1) :
        \A k \in 1..Len(lit) : LowerChar(s[i + k - 1]) = lit[k]

\* fix-lint.py fix_any_types, lines 82-99: the three guarded patterns in
\* order.  Returns <<content, modified>>.
LintFixAnyContent(s) ==
    LET c1 == IF ContainsLower(s, LitMock) \/ Contains(s, LitMockCap)
              THEN LintSubColonAny(s) ELSE s
        c2 == LintSubAsAny(c1)
        c3 == IF Contains(c2, LitWindow) THEN LintSubWindow(c2) ELSE c2
    IN  <<c3, (c1 # s) \/ (c2 # c1) \/ (c3 # c2)>>

(***************************************************************************)
(* String helpers of the lint-driven scripts.                              *)
(***************************************************************************)
\* str.strip()
\* Path.read_text() and open(path, 'r').read(): the text of the file with
\* universal newlines, "\r\n" and a lone "\r" read as "\n".  (What is
\* written has "\n" line ends: on POSIX write_text and write keep them.)
ReadText(s) ==
    LET t == [k \in 1..Len(s) |->
                IF s[k] # "\r" THEN s[k]
                ELSE IF k < Len(s) /\ s[k + 1] = "\n" THEN "drop"
                ELSE "\n"]
    IN  SelectSeq(t, LAMBDA c : c # "drop")

Strip(s) ==
    LET keep == { k \in 1..Len(s) : ~IsSpace(s[k]) }
    IN  IF keep = {} THEN <<>>
        ELSE SubSeq(s, CHOOSE k \in keep : \A x \in keep : k <= x,
                       CHOOSE k \in keep : \A x \in keep : x <= k)

\* str.split(): the maximal runs of non-whitespace characters.
RECURSIVE TokensFrom(_, _)
TokensFrom(s, i) ==
    LET b == SkipClass(s, i, SpaceChars)
    IN  IF b > Len(s) THEN <<>>
        ELSE LET ws == { k \in b..Len(s) : IsSpace(s[k]) }
                 e  == IF ws = {} THEN Len(s) + 1
                       ELSE CHOOSE k \in ws : \A x \in ws : k <= x
             IN  <<SubSeq(s, b, e - 1)>> \o TokensFrom(s, e)

Tokens(s) == TokensFrom(s, 1)

\* str.split(sep) for a one-character sep: the pieces between the
\* separators (always at least one piece).
RECURSIVE SplitFrom(_, _, _)
SplitFrom(s, i, sep) ==
    LET at == { k \in i..Len(s) : s[k] = sep }
    IN  IF at = {} THEN <<SubSeq(s, i, Len(s))>>
        ELSE LET k == CHOOSE x \in at : \A y \in at : x <= y
             IN  <<SubSeq(s, i, k - 1)>> \o SplitFrom(s, k + 1, sep)

Split(s, sep) == SplitFrom(s, 1, sep)

\* '\n'.join(lines)
RECURSIVE JoinLines(_)
JoinLines(ls) ==
    IF Len(ls) = 0 THEN <<>>
    ELSE IF Len(ls) = 1 THEN ls[1]
    ELSE ls[1] \o <<"\n">> \o JoinLines(Tail(ls))

\* The value of a digit.
DigitVal(c) ==
    LET ds == <<"0","1","2","3","4","5","6","7","8","9">>
    IN  (CHOOSE k \in 1..Len(ds) : ds[k] = c) - 1

\* The value of a sequence of at most nine digits.
RECURSIVE DigitsValue(_, _)
DigitsValue(s, n) ==
    IF n = 0 THEN 0 ELSE 10 * DigitsValue(s, n - 1) + DigitVal(s[n])

\* int(s) for a text without whitespace: an optional sign, then digits with
\* single underscores allowed between them; anything else raises ValueError
\* (ok = FALSE), and so does a text of more than 4300 digits, leading zeros
\* counted and underscores not (the default of sys.get_int_max_str_digits()
\* since Python 3.11).  Below that limit the integer is unbounded: it is given by its sign (neg)
\* and its digits without underscores and leading zeros.
IntParse(s) ==
    LET signed == Len(s) >= 1 /\ s[1] \in {"+", "-"}
        body   == IF signed THEN Tail(s) ELSE s
        ok     == /\ Len(body) >= 1
                  /\ \A k \in 1..Len(body) : body[k] \in Digits \cup {"_"}
                  /\ body[1] # "_"
                  /\ body[Len(body)] # "_"
                  /\ \A k \in 1..(Len(body) - 1) :
                        ~(body[k] = "_" /\ body[k + 1] = "_")
        ds     == SelectSeq(body, LAMBDA c : c # "_")
        nz     == { k \in 1..Len(ds) : ds[k] # "0" }
    IN  IF ~ok \/ Len(ds) > 4300 THEN [ok |-> FALSE, neg |-> FALSE, digits |-> <<>>]
        ELSE [ok |-> TRUE,
              neg |-> signed /\ s[1] = "-",
              digits |-> IF nz = {} THEN <<"0">>
                         ELSE SubSeq(ds, CHOOSE k \in nz : \A x \in nz : k <= x,
                                     Len(ds))]

\* line_num = int(...) - 1 for a list of len lines, exact from -len - 1 to
\* len and saturated outside (below -len - 1: IndexError; above len - 1: the
\* record is skipped; the code compares line_num with len(lines) only).
LineNum(p, len) ==
    LET v == IF Len(p.digits) > 9 THEN len + 1
             ELSE IF DigitsValue(p.digits, Len(p.digits)) > len + 1 THEN len + 1
             ELSE DigitsValue(p.digits, Len(p.digits))
    IN  (IF p.neg THEN 0 - v ELSE v) - 1

(***************************************************************************)
(* The lint-output parsers.                                                *)
(***************************************************************************)
LitUsers == <<"/","U","s","e","r","s">>

LitError == <<"e","r","r","o","r">>

LitTests == <<"_","_","t","e","s","t","s","_","_">>

LitDotTest == <<".","t","e","s","t",".">>

LitDotStories == <<".","s","t","o","r","i","e","s",".">>

LitTs == <<".","t","s">>

LitTsx == <<".","t","s","x">>

\* current_file = None
NoFile == <<>>

\* fix-lint.py get_lint_errors, lines 24-35: one iteration of the loop.
\* st = [cur |-> current_file, errs |-> errors].
LintParseStep(st, line) ==
    IF StartsWith(line, LitUsers)
    THEN [st EXCEPT !.cur = Strip(line)]
    ELSE IF st.cur # NoFile /\ Contains(line, LitError)
    THEN LET parts == Tokens(Strip(line))
         IN  IF Len(parts) >= 3
             THEN [st EXCEPT !.errs =
                     Append(@, [file |-> st.cur, location |-> parts[1],
                                line |-> line])]
             ELSE st
    ELSE st

RECURSIVE LintParseFrom(_, _, _)
LintParseFrom(st, lines, k) ==
    IF k > Len(lines) THEN st
    ELSE LintParseFrom(LintParseStep(st, lines[k]), lines, k + 1)

\* fix-lint.py get_lint_errors on the lines of the lint command's output.
LintGetErrors(lines) ==
    LintParseFrom([cur |-> NoFile, errs |-> <<>>], lines, 1).errs

\* fix-lint-comprehensive.py get_lint_errors, lines 24-35: one iteration.
\* st = [cur |-> current_file, map |-> errors_by_file].
CompParseStep(st, line) ==
    IF \/ Contains(line, LitTests)
       \/ Contains(line, LitDotTest)
       \/ Contains(line, LitDotStories)
    THEN st
    ELSE IF StartsWith(line, <<"/">>) /\ (EndsWith(line, LitTs) \/ EndsWith(line, LitTsx))
    THEN LET f == Strip(line)
         IN  [cur |-> f,
              map |-> [k \in DOMAIN st.map \cup {f} |->
                         IF k = f THEN <<>> ELSE st.map[k]]]
    ELSE IF st.cur # NoFile /\ Contains(line, <<":">>) /\ Contains(line, LitError)
    THEN [st EXCEPT !.map[st.cur] = Append(@, Strip(line))]
    ELSE st

(***************************************************************************)
(* fix-lint.py fix_unused_vars.                                            *)
(***************************************************************************)
LitNoUnusedVars == <<"n","o","-","u","n","u","s","e","d","-","v","a","r","s">>

LitScreenUnused ==
    <<"'","s","c","r","e","e","n","'"," ","i","s"," ","d","e","f","i","n","e",
      "d"," ","b","u","t"," ","n","e","v","e","r"," ","u","s","e","d">>

LitRenderUnused ==
    <<"'","r","e","n","d","e","r","'"," ","i","s"," ","d","e","f","i","n","e",
      "d"," ","b","u","t"," ","n","e","v","e","r"," ","u","s","e","d">>

LitContainerUnused ==
    <<"'","c","o","n","t","a","i","n","e","r","'"," ","i","s"," ","a","s","s",
      "i","g","n","e","d"," ","a"," ","v","a","l","u","e"," ","b","u","t"," ",
      "n","e","v","e","r"," ","u","s","e","d">>

LitUnderContainerUnused ==
    <<"'","_","c","o","n","t","a","i","n","e","r","'"," ","i","s"," ","a","s",
      "s","i","g","n","e","d"," ","a"," ","v","a","l","u","e"," ","b","u","t",
      " ","n","e","v","e","r"," ","u","s","e","d">>

\* The for loop of fix_unused_vars (lines 46-69) from the k-th error on.
\* raised: int() raised ValueError or lines[line_num] raised IndexError.
RECURSIVE UnusedLoop(_, _, _, _)
UnusedLoop(lines, errs, k, modified) ==
    IF k > Len(errs)
    THEN [raised |-> FALSE, lines |-> lines, modified |-> modified]
    ELSE IF ~Contains(errs[k].line, LitNoUnusedVars)
    THEN UnusedLoop(lines, errs, k + 1, modified)
    ELSE LET p == IntParse(Split(errs[k].location, ":")[1])
             n == IF p.ok THEN LineNum(p, Len(lines)) ELSE 0
             msg == errs[k].line
         IN  IF ~p.ok
             THEN [raised |-> TRUE, lines |-> lines, modified |-> modified]
             ELSE IF n >= Len(lines)
             THEN UnusedLoop(lines, errs, k + 1, modified)
             ELSE IF n < 0 - Len(lines)
             THEN [raised |-> TRUE, lines |-> lines, modified |-> modified]
             ELSE LET idx == IF n >= 0 THEN n + 1 ELSE Len(lines) + n + 1
                      line == lines[idx]
                  IN  IF Contains(msg, LitScreenUnused)
                      THEN UnusedLoop(
                             [lines EXCEPT ![idx] =
                                PieceSub("screen_after", PieceSub("screen_before", line))],
                             errs, k + 1, TRUE)
                      ELSE IF Contains(msg, LitRenderUnused)
                      THEN UnusedLoop(
                             [lines EXCEPT ![idx] =
                                PieceSub("render_after", PieceSub("render_before", line))],
                             errs, k + 1, TRUE)
                      ELSE IF Contains(msg, LitContainerUnused)
                      THEN UnusedLoop(
                             [lines EXCEPT ![idx] = PieceSub("container", line)],
                             errs, k + 1, TRUE)
                      ELSE IF Contains(msg, LitUnderContainerUnused)
                      THEN UnusedLoop(
                             [lines EXCEPT ![idx] =
                                PieceSub("destructured_after",
                                         PieceSub("destructured_before", line))],
                             errs, k + 1, TRUE)
                      ELSE UnusedLoop(lines, errs, k + 1, modified)

\* fix_unused_vars on the content read: whether it raised, whether it
\* writes (modified), and the text it writes.
FixUnusedVars(content, errs) ==
    LET r == UnusedLoop(Split(content, "\n"), errs, 1, FALSE)
    IN  [raised |-> r.raised, modified |-> r.modified,
         content |-> JoinLines(r.lines)]

(***************************************************************************)
(* Input texts: concatenations of at most MaxFrags fragments, and the      *)
(* scenario text.                                                          *)
(***************************************************************************)
MaxFrags == 2

MaxApply == 2

FragAnnot == <<"x",":"," ","a","n","y">>

FragArray == <<"[","]">>

FragAlias == <<"t","y","p","e"," ","T"," ","="," ","a","n","y">>

\* A generic argument, an optional property and a return type.
FragSig ==
    <<"g","<","a","n","y",">","(","p","?",":"," ","a","n","y",")",":"," ","a",
      "n","y">>

FragTsIgnore == <<"/","/"," ","@","t","s","-","i","g","n","o","r","e">>

FragTsIgnoreTight == <<"/","/","@","t","s","-","i","g","n","o","r","e">>

FragNote == <<" ","s","o","m","e"," ","n","o","t","e">>

FragNewline == <<"\n">>

\* The directive after a run of whitespace: a space, a newline and a
\* vertical tab (0x0b).
FragTsIgnoreWide ==
    <<"/","/"," ","\n","","@","t","s","-","i","g","n","o","r","e">>

FragRequire ==
    <<"c","o","n","s","t"," ","a"," ","="," ","r","e","q","u","i","r","e","(",
      "'","b","'",")",";">>

\* The scenario of spec section 8.
Scenario ==
    <<"f","u","n","c","t","i","o","n"," ","f","(","x",":"," ","a","n","y",")",
      ":"," ","a","n","y"," ","{"," ","r","e","t","u","r","n"," ","x"," ","a",
      "s"," ","a","n","y",";"," ","}">>

Frags == {FragAnnot, FragArray, FragAlias, FragSig, FragTsIgnore,
          FragTsIgnoreTight, FragTsIgnoreWide, FragNote, FragNewline,
          FragRequire}

RECURSIVE TextsUpTo(_)
TextsUpTo(n) ==
    IF n = 0 THEN {<<>>}
    ELSE LET T == TextsUpTo(n - 1)
         IN  T \cup { t \o f : t \in T, f \in Frags }

Texts == TextsUpTo(MaxFrags) \cup {Scenario}

(***************************************************************************)
(* The files and the lint output of a run.                                 *)
(***************************************************************************)
MaxLines == 3

MaxFailures == 1

PathButton ==
    <<"c","o","m","p","o","n","e","n","t","s","/","B","u","t","t","o","n",".",
      "t","s","x">>

PathButtonTest ==
    <<"c","o","m","p","o","n","e","n","t","s","/","B","u","t","t","o","n",".",
      "t","e","s","t",".","t","s","x">>

PathHookInTests ==
    <<"h","o","o","k","s","/","_","_","t","e","s","t","s","_","_","/","u","s",
      "e","X",".","t","s">>

\* Files with the other two markers in their names.
PathButtonStories ==
    <<"c","o","m","p","o","n","e","n","t","s","/","B","u","t","t","o","n",".",
      "s","t","o","r","i","e","s",".","t","s","x">>

PathTestsName ==
    <<"h","o","o","k","s","/","_","_","t","e","s","t","s","_","_",".","t","s">>

PathUserA == <<"/","U","s","e","r","s","/","a",".","t","s">>

PathUserATest ==
    <<"/","U","s","e","r","s","/","a",".","t","e","s","t",".","t","s">>

\* Files under the source directory, and files the lint output names.
GlobPaths ==
    {PathButton, PathButtonTest, PathHookInTests, PathButtonStories,
     PathTestsName}

LintPaths == {PathUserA, PathUserATest}

\* Directories the scripts may lie in: one without a marker of the
\* exclusion filter, one with a marker.
BaseRepo == <<"/","r","e","p","o">>

BaseDirs == {BaseRepo, BaseRepo \o <<"/">> \o LitTests}

Paths == GlobPaths \cup LintPaths

\* A text with none of the target patterns.
TextPlain == <<"o","k">>

\* An import list with `screen` and an `as any` assertion.
TextScreen ==
    <<"a",","," ","s","c","r","e","e","n","\n","f","(",")"," ","a","s"," ",
      "a","n","y",";">>

\* A file with Windows line ends.
TextCrlf == <<"x",":"," ","a","n","y","\r","\n">>

GlobTexts == {TextPlain, FragAnnot, FragAlias, TextCrlf}

LintTexts == {TextPlain, TextScreen, TextCrlf}

LineScreen ==
    <<"1",":","1"," ","e","r","r","o","r"," ","'","s","c","r","e","e","n","'",
      " ","i","s"," ","d","e","f","i","n","e","d"," ","b","u","t"," ","n","e",
      "v","e","r"," ","u","s","e","d"," "," ","n","o","-","u","n","u","s","e",
      "d","-","v","a","r","s">>

\* An error line whose first token is no line:column location.
LineBadLocation ==
    <<"x"," ","e","r","r","o","r"," ","n","o","-","u","n","u","s","e","d","-",
      "v","a","r","s">>

OutputLines == {PathUserA, PathUserATest, LineScreen, LineBadLocation}

RECURSIVE OutputsUpTo(_)
OutputsUpTo(n) ==
    IF n = 0 THEN {<<>>}
    ELSE LET T == OutputsUpTo(n - 1)
         IN  T \cup { Append(t, l) : t \in T, l \in OutputLines }

(***************************************************************************)
(* Globs and the exclusion filters of the glob-driven mains.               *)
(***************************************************************************)
LitComponents == <<"c","o","m","p","o","n","e","n","t","s","/">>

LitContexts == <<"c","o","n","t","e","x","t","s","/">>

LitHooks == <<"h","o","o","k","s","/">>

LitSchemas == <<"s","c","h","e","m","a","s","/">>

LitConfig == <<"c","o","n","f","i","g","/">>

\* fix-lint-auto.py main: patterns
AutoPatterns ==
    << [dir |-> LitComponents, ext |-> LitTsx],
       [dir |-> LitComponents, ext |-> LitTs],
       [dir |-> LitContexts, ext |-> LitTsx],
       [dir |-> LitHooks, ext |-> LitTs],
       [dir |-> LitSchemas, ext |-> LitTs] >>

\* fix-lint-comprehensive.py main: patterns
CompPatterns ==
    AutoPatterns \o << [dir |-> LitConfig, ext |-> LitTs] >>

PatternsOf(sc) == IF sc = "auto" THEN AutoPatterns ELSE CompPatterns

\* base_dir.glob("<dir>**/*<ext>") yields f (a path relative to base_dir).
GlobMatches(f, p) ==
    /\ Len(f) >= Len(p.dir) + Len(p.ext)
    /\ StartsWith(f, p.dir)
    /\ EndsWith(f, p.ext)

\* Path.name: the last component.
Name(f) ==
    LET slashes == { k \in 1..Len(f) : f[k] = "/" }
    IN  IF slashes = {} THEN f
        ELSE SubSeq(f, (CHOOSE k \in slashes : \A x \in slashes : x <= k) + 1,
                       Len(f))

HasMarker(s) ==
    \/ Contains(s, LitDotTest)
    \/ Contains(s, LitDotStories)
    \/ Contains(s, LitTests)

\* fix-lint-auto.py main, line 68: the markers are looked for in the name.
AutoSkips(f) == HasMarker(Name(f))

\* fix-lint-comprehensive.py main, line 166: in str(filepath), the whole
\* path that the glob of base_dir / 'src' yields for the file f of src.
CompSkips(base, f) == HasMarker(base \o <<"/","s","r","c","/">> \o f)

Skips(sc, base, f) == IF sc = "auto" THEN AutoSkips(f) ELSE CompSkips(base, f)

Transform(sc, s) == IF sc = "auto" THEN AutoTransform(s) ELSE CompTransform(s)

(***************************************************************************)
(* The scripts, and the values of the variables a specification does not   *)
(* use.                                                                    *)
(***************************************************************************)
GlobScripts == {"auto", "comprehensive"}

RulesIdle ==
    /\ text = <<>>
    /\ prev = <<>>
    /\ orig = <<>>
    /\ last = "none"
    /\ steps = 0

ParseIdle ==
    /\ plines = <<>>
    /\ ppos = 0
    /\ pparser = "none"
    /\ pstate = [cur |-> NoFile]
    /\ attached = NoFile

RunIdle ==
    /\ script = "none"
    /\ base_dir = <<>>
    /\ disk = <<>>
    /\ disk0 = <<>>
    /\ pc = "idle"
    /\ patIdx = 0
    /\ seen = {}
    /\ fixed_count = 0
    /\ reported = <<>>
    /\ writes = <<>>
    /\ sameWrite = {}
    /\ passed = {}
    /\ skipped = {}
    /\ failures = 0
    /\ output = <<>>
    /\ errors = <<>>
    /\ queue = <<>>

(***************************************************************************)
(* SpecRules: the rules as pure functions, applied to an input text.       *)
(***************************************************************************)
RuleNames == {"auto_any", "ts_ignore", "require", "auto_transform",
              "comp_fix_any_types", "lint_fix_any_types"}

\* What the rule called name makes of s.
Apply(name, s) ==
    CASE name = "auto_any" -> AutoFixAny(s)
      [] name = "ts_ignore" -> AutoFixTsIgnore(s)
      [] name = "require" -> AutoFixRequire(s)
      [] name = "auto_transform" -> AutoTransform(s)
      [] name = "comp_fix_any_types" -> CompFixAnyTypes(s)
      [] name = "lint_fix_any_types" -> LintFixAnyContent(s)[1]

RulesInit ==
    /\ text \in Texts
    /\ prev = text
    /\ orig = text
    /\ last = "none"
    /\ steps = 0
    /\ RunIdle
    /\ ParseIdle

ApplyRule(name) ==
    /\ steps < MaxApply
    /\ prev' = text
    /\ text' = Apply(name, text)
    /\ last' = name
    /\ steps' = steps + 1
    /\ UNCHANGED <<orig, runVars, parseVars>>

RulesNext == \E name \in RuleNames : ApplyRule(name)

SpecRules == RulesInit /\ [][RulesNext]_vars

(***************************************************************************)
(* Spec: one run of one of the three scripts.                              *)
(***************************************************************************)
Init ==
    /\ RulesIdle
    /\ ParseIdle
    /\ script \in GlobScripts \cup {"lint"}
    /\ base_dir \in (IF script = "comprehensive" THEN BaseDirs ELSE {BaseRepo})
    /\ disk \in [Paths -> GlobTexts \cup LintTexts]
    /\ \A f \in GlobPaths :
          disk[f] \in (IF script \notin GlobScripts THEN {TextPlain}
                       ELSE IF f \in {PathButtonStories, PathTestsName}
                       THEN {TextPlain, FragAnnot}
                       ELSE GlobTexts)
    /\ \A f \in LintPaths :
          disk[f] \in (IF script = "lint" THEN LintTexts ELSE {TextPlain})
    /\ disk0 = disk
    /\ output \in (IF script = "lint" THEN OutputsUpTo(MaxLines) ELSE {<<>>})
    /\ pc = IF script = "lint" THEN "lint_start" ELSE "glob"
    /\ patIdx = 1
    /\ seen = {}
    /\ fixed_count = 0
    /\ reported = <<>>
    /\ writes = [f \in Paths |-> 0]
    /\ sameWrite = {}
    /\ passed = {}
    /\ skipped = {}
    /\ failures = 0
    /\ errors = <<>>
    /\ queue = <<>>

\* The files the current pattern's glob has still to yield.
Pending(f) ==
    /\ pc = "glob"
    /\ patIdx <= Len(PatternsOf(script))
    /\ f \in Paths \ seen
    /\ GlobMatches(f, PatternsOf(script)[patIdx])

\* main, the loop body for a test or story file: `continue`.
GlobSkipFile(f) ==
    /\ Pending(f)
    /\ Skips(script, base_dir, f)
    /\ seen' = seen \cup {f}
    /\ skipped' = skipped \cup {f}
    /\ UNCHANGED <<ruleVars, parseVars>>
    /\ UNCHANGED <<script, base_dir,
                   disk, disk0, pc, patIdx, fixed_count, reported,
                   writes, sameWrite, passed, failures, output, errors, queue>>

\* main, the loop body with fix_file reading and (if the text changed)
\* writing the file.
GlobFixFile(f) ==
    /\ Pending(f)
    /\ ~Skips(script, base_dir, f)
    /\ seen' = seen \cup {f}
    /\ passed' = passed \cup {f}
    /\ LET content == ReadText(disk[f])
           new == Transform(script, content)
       IN  IF new # content
           THEN /\ disk' = [disk EXCEPT ![f] = new]
                /\ writes' = [writes EXCEPT ![f] = @ + 1]
                /\ reported' = Append(reported, f)
                /\ fixed_count' = fixed_count + 1
           ELSE UNCHANGED <<disk, writes, reported, fixed_count>>
    /\ UNCHANGED <<ruleVars, parseVars>>
    /\ UNCHANGED <<script, base_dir,
                   disk0, pc, patIdx, sameWrite, skipped, failures,
                   output, errors, queue>>

\* fix_file with read_text raising: caught, False returned.
GlobReadFails(f) ==
    /\ Pending(f)
    /\ ~Skips(script, base_dir, f)
    /\ failures < MaxFailures
    /\ failures' = failures + 1
    /\ seen' = seen \cup {f}
    /\ passed' = passed \cup {f}
    /\ UNCHANGED <<ruleVars, parseVars>>
    /\ UNCHANGED <<script, base_dir,
                   disk, disk0, pc, patIdx, fixed_count, reported,
                   writes, sameWrite, skipped, output, errors, queue>>

\* fix_file with write_text raising: caught, False returned.  Either the
\* open for writing is refused and the file is as it was, or the open has
\* truncated the file and the write fails with a part of the new text
\* written: the file is left with a proper prefix of it (with nothing, if
\* no byte was written).
GlobWriteFails(f) ==
    /\ Pending(f)
    /\ ~Skips(script, base_dir, f)
    /\ failures < MaxFailures
    /\ failures' = failures + 1
    /\ seen' = seen \cup {f}
    /\ passed' = passed \cup {f}
    /\ LET content == ReadText(disk[f])
           new == Transform(script, content)
       IN  /\ new # content
           /\ \E left \in {disk[f]}
                          \cup { SubSeq(new, 1, n) : n \in 0..(Len(new) - 1) } :
                 disk' = [disk EXCEPT ![f] = left]
    /\ UNCHANGED <<ruleVars, parseVars>>
    /\ UNCHANGED <<script, base_dir,
                   disk0, pc, patIdx, fixed_count, reported,
                   writes, sameWrite, skipped, output, errors, queue>>

\* The glob of the current pattern is exhausted: on to the next pattern.
GlobNextPattern ==
    /\ pc = "glob"
    /\ patIdx <= Len(PatternsOf(script))
    /\ ~\E f \in Paths : Pending(f)
    /\ patIdx' = patIdx + 1
    /\ seen' = {}
    /\ UNCHANGED <<ruleVars, parseVars>>
    /\ UNCHANGED <<script, base_dir,
                   disk, disk0, pc, fixed_count, reported, writes,
                   sameWrite, passed, skipped, failures, output, errors, queue>>

\* print(f"\nTotal files fixed: {fixed_count}")
GlobPrintTotal ==
    /\ pc = "glob"
    /\ patIdx > Len(PatternsOf(script))
    /\ pc' = "done"
    /\ UNCHANGED <<ruleVars, parseVars>>
    /\ UNCHANGED <<script, base_dir,
                   disk, disk0, patIdx, seen, fixed_count, reported,
                   writes, sameWrite, passed, skipped, failures, output,
                   errors, queue>>

\* The errors of file f, in order.
RECURSIVE ErrorsOf(_, _)
ErrorsOf(errs, f) ==
    IF errs = <<>> THEN <<>>
    ELSE IF Head(errs).file = f
    THEN <<Head(errs)>> \o ErrorsOf(Tail(errs), f)
    ELSE ErrorsOf(Tail(errs), f)

\* The keys of files_with_errors in insertion order.
RECURSIVE FileOrder(_, _)
FileOrder(errs, have) ==
    IF errs = <<>> THEN <<>>
    ELSE IF Head(errs).file \in have
    THEN FileOrder(Tail(errs), have)
    ELSE <<Head(errs).file>>
           \o FileOrder(Tail(errs), have \cup {Head(errs).file})

\* fix-lint.py main, lines 108-123.
LintAnalyze ==
    /\ pc = "lint_start"
    /\ LET errs == LintGetErrors(output)
       IN  /\ errors' = errs
           /\ queue' = FileOrder(errs, {})
           /\ pc' = IF errs = <<>> THEN "done_no_errors" ELSE "lint_fix"
    /\ UNCHANGED <<ruleVars, parseVars>>
    /\ UNCHANGED <<script, base_dir,
                   disk, disk0, patIdx, seen, fixed_count, reported,
                   writes, sameWrite, passed, skipped, failures, output>>

\* get_lint_errors, lines 14-19: subprocess.run raises (the hard-coded cwd
\* does not exist, or there is no npm): nothing catches it, main ends
\* before a file is processed.
LintRunFails ==
    /\ pc = "lint_start"
    /\ pc' = "failed_start"
    /\ UNCHANGED <<ruleVars, parseVars>>
    /\ UNCHANGED <<script, base_dir,
                   disk, disk0, patIdx, seen, fixed_count, reported,
                   writes, sameWrite, passed, skipped, failures, output,
                   errors, queue>>

\* main, lines 126-132, for one file with raw on the disk: what
\* fix_unused_vars (r1, on the text content it reads) and then fix_any_types
\* (r2, on the text it reads from the file as r1 left it) do when no open()
\* fails.
\*   raised: fix_unused_vars raises;  first, second: the fixer writes the
\*   file and returns True;  mid, final: the file after each fixer;
\*   same1, same2: the fixer writes the very text main's first read saw.
LintPlanOf(raw, content, r1, r2) ==
    [raised |-> r1.raised,
     first  |-> r1.modified,
     mid    |-> IF r1.modified THEN r1.content ELSE raw,
     second |-> r2[2],
     final  |-> IF r2[2] THEN r2[1] ELSE IF r1.modified THEN r1.content ELSE raw,
     same1  |-> r1.modified /\ r1.content = content,
     same2  |-> r2[2] /\ r2[1] = content]

LintAfterFirst(raw, content, r1) ==
    LintPlanOf(raw, content, r1,
               LintFixAnyContent(IF r1.modified THEN ReadText(r1.content)
                                 ELSE content))

\* The plan for the head of the queue.
HeadPlan ==
    LintAfterFirst(disk[Head(queue)], ReadText(disk[Head(queue)]),
                   FixUnusedVars(ReadText(disk[Head(queue)]),
                                 ErrorsOf(errors, Head(queue))))

\* The effect on the counters of n fixers having returned True for file f.
LintCount(f, n, same) ==
    /\ writes' = [writes EXCEPT ![f] = @ + n]
    /\ fixed_count' = fixed_count + n
    /\ reported' = reported \o [k \in 1..n |-> f]
    /\ sameWrite' = IF same THEN sameWrite \cup {f} ELSE sameWrite

\* One iteration, both fixers returning.
LintFixFileWith(f, p) ==
    /\ ~p.raised
    /\ LintCount(f, (IF p.first THEN 1 ELSE 0) + (IF p.second THEN 1 ELSE 0),
                 p.same1 \/ p.same2)
    /\ disk' = [disk EXCEPT ![f] = p.final]
    /\ passed' = passed \cup {f}
    /\ queue' = Tail(queue)
    /\ UNCHANGED <<ruleVars, parseVars>>
    /\ UNCHANGED <<script, base_dir,
                   disk0, pc, patIdx, seen, skipped, failures,
                   output, errors>>

LintFixFile ==
    /\ pc = "lint_fix"
    /\ queue # <<>>
    /\ LintFixFileWith(Head(queue), HeadPlan)

\* fix_unused_vars raises ValueError (int of the location) or IndexError:
\* nothing catches it and the run ends.
LintFileRaisesWith(f, p) ==
    /\ p.raised
    /\ pc' = "crashed"
    /\ passed' = passed \cup {f}
    /\ UNCHANGED <<ruleVars, parseVars>>
    /\ UNCHANGED <<script, base_dir,
                   disk, disk0, patIdx, seen, fixed_count, reported,
                   writes, sameWrite, skipped, failures, output, errors, queue>>

LintFileRaises ==
    /\ pc = "lint_fix"
    /\ queue # <<>>
    /\ LintFileRaisesWith(Head(queue), HeadPlan)

\* An open() or a write() of one of the two fixers raises OSError: nothing
\* catches it.  at: the call that fails (fix_unused_vars: read1, the open
\* of line 41; open1, the open for writing of line 72; write1, the write of
\* line 73, the open having truncated the file; read2, open2, write2: the
\* same calls of fix_any_types, lines 79, 102 and 103, after fix_unused_vars
\* has returned).  A failing write leaves a proper prefix of the text it
\* was writing (nothing, if no byte was written).
LintIoFailsWith(at, f, p) ==
    /\ (at # "read1") => ~p.raised
    /\ failures < MaxFailures
    /\ failures' = failures + 1
    /\ pc' = "crashed"
    /\ passed' = passed \cup {f}
    /\ (at \in {"open1", "write1"}) => p.first
    /\ (at \in {"open2", "write2"}) => p.second
    /\ IF at \in {"read1", "open1"}
       THEN UNCHANGED <<disk, writes, fixed_count, reported, sameWrite>>
       ELSE IF at = "write1"
       THEN /\ \E n \in 0..(Len(p.mid) - 1) :
                  disk' = [disk EXCEPT ![f] = SubSeq(p.mid, 1, n)]
            /\ UNCHANGED <<writes, fixed_count, reported, sameWrite>>
       ELSE /\ LintCount(f, IF p.first THEN 1 ELSE 0, p.same1)
            /\ IF at = "write2"
               THEN \E n \in 0..(Len(p.final) - 1) :
                       disk' = [disk EXCEPT ![f] = SubSeq(p.final, 1, n)]
               ELSE disk' = [disk EXCEPT ![f] = p.mid]
    /\ UNCHANGED <<ruleVars, parseVars>>
    /\ UNCHANGED <<script, base_dir,
                   disk0, patIdx, seen, skipped, output, errors, queue>>

LintIoFails(at) ==
    /\ pc = "lint_fix"
    /\ queue # <<>>
    /\ LintIoFailsWith(at, Head(queue), HeadPlan)

\* print(f"\nFixed issues in {fixed_count} files")
LintPrintTotal ==
    /\ pc = "lint_fix"
    /\ queue = <<>>
    /\ pc' = "done"
    /\ UNCHANGED <<ruleVars, parseVars>>
    /\ UNCHANGED <<script, base_dir,
                   disk, disk0, patIdx, seen, fixed_count, reported,
                   writes, sameWrite, passed, skipped, failures, output,
                   errors, queue>>

Next ==
    \/ \E f \in Paths : GlobSkipFile(f)
    \/ \E f \in Paths : GlobFixFile(f)
    \/ \E f \in Paths : GlobReadFails(f)
    \/ \E f \in Paths : GlobWriteFails(f)
    \/ GlobNextPattern
    \/ GlobPrintTotal
    \/ LintAnalyze
    \/ LintRunFails
    \/ LintFixFile
    \/ LintFileRaises
    \/ \E at \in {"read1", "open1", "write1", "read2", "open2", "write2"} :
          LintIoFails(at)
    \/ LintPrintTotal

Spec == Init /\ [][Next]_vars

(***************************************************************************)
(* SpecParse: a parser of the lint output, line by line.                   *)
(***************************************************************************)
ParseInit ==
    /\ RulesIdle
    /\ RunIdle
    /\ pparser \in {"comprehensive", "lint"}
    /\ plines \in OutputsUpTo(MaxLines)
    /\ ppos = 0
    /\ pstate = IF pparser = "lint"
                THEN [cur |-> NoFile, errs |-> <<>>]
                ELSE [cur |-> NoFile, map |-> <<>>]
    /\ attached = NoFile

\* Number of records attached to file f.
NumRecords(p, st, f) ==
    IF p = "lint" THEN Len(ErrorsOf(st.errs, f))
    ELSE IF f \in DOMAIN st.map THEN Len(st.map[f]) ELSE 0

\* The file the step from st to new attached a record to (NoFile: none).
AttachedTo(p, st, new) ==
    IF p = "lint"
    THEN IF Len(new.errs) > Len(st.errs)
         THEN new.errs[Len(new.errs)].file ELSE NoFile
    ELSE IF /\ st.cur \in DOMAIN st.map
            /\ new.cur = st.cur
            /\ Len(new.map[st.cur]) > Len(st.map[st.cur])
         THEN st.cur ELSE NoFile

\* fix-lint.py get_lint_errors: the next line of the output.
ParseLintLine ==
    /\ pparser = "lint"
    /\ ppos < Len(plines)
    /\ pstate' = LintParseStep(pstate, plines[ppos + 1])
    /\ attached' = AttachedTo("lint", pstate, pstate')
    /\ ppos' = ppos + 1
    /\ UNCHANGED <<plines, pparser, ruleVars, runVars>>

\* fix-lint-comprehensive.py get_lint_errors: the next line of the output.
ParseCompLine ==
    /\ pparser = "comprehensive"
    /\ ppos < Len(plines)
    /\ pstate' = CompParseStep(pstate, plines[ppos + 1])
    /\ attached' = AttachedTo("comprehensive", pstate, pstate')
    /\ ppos' = ppos + 1
    /\ UNCHANGED <<plines, pparser, ruleVars, runVars>>

ParseNext ==
    \/ ParseLintLine
    \/ ParseCompLine

SpecParse == ParseInit /\ [][ParseNext]_vars

(***************************************************************************)
(* Properties of the rules (checked under SpecRules).                      *)
(***************************************************************************)
LitAnyArray == <<"a","n","y","[","]">>

LitTsExpectErrorToken ==
    <<"@","t","s","-","e","x","p","e","c","t","-","e","r","r","o","r">>

\* The rules that narrow `any` over a whole text.
AnyRuleNames == {"auto_any", "auto_transform", "comp_fix_any_types"}

\* Positions of the type token `any` immediately followed by `[]`.
AnyArrayPositions(s) ==
    { i \in 1..Len(s) : StartsWithAt(s, i, LitAnyArray) /\ WordBoundary(s, i) }

\* C4: no occurrence of the type token `any` that is immediately followed
\* by `[]` is changed by the any rules (no rule creates an `any`, so the
\* occurrences are untouched exactly when as many are left as there were).
C4_ArrayOfAnyUnchanged ==
    last \in AnyRuleNames =>
        Cardinality(AnyArrayPositions(text)) = Cardinality(AnyArrayPositions(prev))

ScenarioClaimed ==
    <<"f","u","n","c","t","i","o","n"," ","f","(","x",":"," ","u","n","k","n",
      "o","w","n",")",":"," ","u","n","k","n","o","w","n"," ","{"," ","r","e",
      "t","u","r","n"," ","x"," ","a","s"," ","u","n","k","n","o","w","n",";",
      " ","}">>

ScenarioCompOut ==
    <<"f","u","n","c","t","i","o","n"," ","f","(","x",":"," ","u","n","k","n",
      "o","w","n",")",":"," ","u","n","k","n","o","w","n"," ","{"," ","r","e",
      "t","u","r","n"," ","x"," ","a","s"," ","a","n","y",";"," ","}">>

ScenarioAutoOut ==
    <<"f","u","n","c","t","i","o","n"," ","f","(","x",":"," ","u","n","k","n",
      "o","w","n",")",":"," ","a","n","y"," ","{"," ","r","e","t","u","r","n",
      " ","x"," ","a","s"," ","a","n","y",";"," ","}">>

\* The whole-text rewrites of the three scripts.
RewriterNames == {"auto_transform", "comp_fix_any_types", "lint_fix_any_types"}

\* C5 as stated: a rewriter applied to the scenario text narrows the
\* parameter annotation, the return type and the `as any` assertion.
C5_ScenarioFullyNarrowed ==
    (prev = Scenario /\ last \in RewriterNames) => text = ScenarioClaimed

\* C5 amended: on the scenario text fix-lint-comprehensive.py narrows the
\* parameter and the return type and leaves `as any`; fix-lint-auto.py
\* narrows the parameter only; fix-lint.py's fix_any_types changes nothing.
C5_ScenarioOutputs ==
    /\ (prev = Scenario /\ last = "comp_fix_any_types") => text = ScenarioCompOut
    /\ (prev = Scenario /\ last = "auto_transform") => text = ScenarioAutoOut
    /\ (prev = Scenario /\ last = "lint_fix_any_types") => text = Scenario

C5_Witness ==
    /\ orig = Scenario
    /\ steps = 1
    /\ last = "comp_fix_any_types"
    /\ text # prev

\* C6: every rule is idempotent: the text a rule has produced is left as it
\* is by a second application of the same rule.
C6_RulesIdempotent == last # "none" => Apply(last, text) = text

\* Total length change when every span <<start, end>> (end exclusive) of
\* spans is replaced by a text of length newLen.
RECURSIVE SumShift(_, _)
SumShift(spans, newLen) ==
    IF spans = {} THEN 0
    ELSE LET sp == CHOOSE x \in spans : TRUE
         IN  (newLen - (sp[2] - sp[1])) + SumShift(spans \ {sp}, newLen)

ShiftAt(spans, k, newLen) == SumShift({ sp \in spans : sp[1] < k }, newLen)

\* out is in with each span replaced by new and every character outside the
\* spans left as it was.
FrameHolds(in, out, spans, new) ==
    /\ Len(out) = Len(in) + SumShift(spans, Len(new))
    /\ \A k \in 1..Len(in) :
          (~\E sp \in spans : sp[1] <= k /\ k < sp[2])
              => out[k + ShiftAt(spans, k, Len(new))] = in[k]
    /\ \A sp \in spans :
          StartsWithAt(out, sp[1] + ShiftAt(spans, sp[1], Len(new)), new)

\* <<i, a>>: a line-comment opener at i, only whitespace up to a, and the
\* directive token `@ts-ignore` at a, ending at a word boundary.
Directives(s) ==
    { p \in (1..Len(s)) \X (1..Len(s)) :
        /\ p[1] + 2 <= p[2]
        /\ StartsWithAt(s, p[1], LitSlashes)
        /\ \A k \in (p[1] + 2)..(p[2] - 1) : IsSpace(s[k])
        /\ StartsWithAt(s, p[2], LitTsIgnore)
        /\ WordBoundary(s, p[2] + 10) }

\* The directive tokens alone, and the comments from `//` to the token's end.
TokenSpans(s) == { <<p[2], p[2] + 10>> : p \in Directives(s) }

CommentSpans(s) == { <<p[1], p[2] + 10>> : p \in Directives(s) }

\* C7 as stated: the suppression-directive rule replaces the `@ts-ignore`
\* token by `@ts-expect-error` and leaves every other character as it was.
C7_OnlyTokenChanges ==
    last = "ts_ignore" =>
        FrameHolds(prev, text, TokenSpans(prev), LitTsExpectErrorToken)

\* C7 amended: the rule replaces each comment opener, the whitespace after
\* it and the `@ts-ignore` token by `// @ts-expect-error`; every character
\* before the `//` and after the token is left as it was.
C7_DirectiveFrame ==
    last = "ts_ignore" =>
        FrameHolds(prev, text, CommentSpans(prev), LitTsExpectError)

C7_Witness ==
    /\ last = "ts_ignore"
    /\ prev = FragTsIgnoreTight \o FragNote
    /\ text = LitTsExpectError \o FragNote

(***************************************************************************)
(* Properties of a run (checked under Spec).                               *)
(***************************************************************************)
\* C1: in a run of any of the three scripts each file is written at most
\* once, and a file is written only with a text that differs from the text
\* read from it at the start of its processing.
C1_WrittenOnceAndOnlyIfChanged ==
    \A f \in DOMAIN writes : writes[f] <= 1 /\ f \notin sameWrite

\* Files whose name carries one of the markers .test. .stories. __tests__
ExcludedFiles == { f \in DOMAIN writes : HasMarker(Name(f)) }

\* C2 as stated: in a run of any of the three scripts a file whose name
\* contains `.test.`, `.stories.` or `__tests__` is never passed to a fixer
\* and never opened for writing.
C2_ExcludedNeverPassed ==
    \A f \in ExcludedFiles : f \notin passed /\ writes[f] = 0

\* C3: a failure while one file is processed (an open that fails, the int()
\* of a record's location) never aborts the run of any of the three scripts.
C3_RunNeverAborts == pc # "crashed"

\* The files whose content differs from before the run.
ChangedFiles == { f \in DOMAIN disk : disk[f] # disk0[f] }

\* Number of times f is reported (printed as fixed).
TimesReported(f) == Cardinality({ k \in 1..Len(reported) : reported[k] = f })

\* C10: after a run the printed total is the number of files whose content
\* differs from before the run, each of them is reported once, and a file
\* whose bytes are unchanged is not reported.
C10_ReportMatchesChanges ==
    pc = "done" =>
        /\ fixed_count = Cardinality(ChangedFiles)
        /\ \A f \in DOMAIN disk :
              TimesReported(f) = IF f \in ChangedFiles THEN 1 ELSE 0

(***************************************************************************)
(* Properties of the lint-output parsers (checked under SpecParse).        *)
(***************************************************************************)
\* C8: no record already attached to a file is lost when later lines are
\* scanned, also when the same path line appears again: the number of
\* records of a file never decreases.
C8_NoRecordLost ==
    [][\A f \in LintPaths :
          NumRecords(pparser, pstate', f) >= NumRecords(pparser, pstate, f)]_vars

\* A line that is an absolute path ending in .ts or .tsx.
IsPathLine(line) ==
    StartsWith(line, <<"/">>) /\ (EndsWith(line, LitTs) \/ EndsWith(line, LitTsx))

\* The most recent path line among the first k lines (NoFile: none): the
\* file the linter reported the k-th line under.
RECURSIVE ReportedUnder(_, _)
ReportedUnder(lines, k) ==
    IF k = 0 THEN NoFile
    ELSE IF IsPathLine(lines[k]) THEN lines[k]
    ELSE ReportedUnder(lines, k - 1)

\* C9: an error line reported under the path line of a test or story file
\* is attached to no file: a record is attached only to the file of the
\* most recent path line, and that file is no test or story file.
C9_ExcludedLinesDropped ==
    attached # NoFile =>
        /\ attached = ReportedUnder(plines, ppos)
        /\ ~HasMarker(attached)

====
